---- MODULE Spec2Model ----
(***************************************************************************)
(* train_test_split_groupby_trial (torcheeg/model_selection/               *)
(* split_groupby_trial.py): the per-(subject, trial) train/test split of a *)
(* dataset's metadata table, cached in a split directory.                  *)
(*                                                                         *)
(* Tables are modelled cell by cell.  A cell is [k, t]: its dtype kind     *)
(* ("int" or "str") and its text.  to_csv keeps only the text, read_csv    *)
(* infers the kind of a column from the texts of the whole column.         *)
(*                                                                         *)
(* Two specifications share the state:                                     *)
(*   Spec      one caller, every call of the function is one step;         *)
(*   SpecRace  two callers on one split_path, one step per I/O operation.  *)
(***************************************************************************)
EXTENDS Integers, Sequences, FiniteSets, TLC

\* Largest metadata table explored (rows of dataset.info).
MaxRows == 4

\* subject_id values (texts: an object column), trial_id values (an int64 column).
Subjects == {"1", "s2"}
Trials == {1, 2}

\* split_path values, random_state seeds, callers.
Paths == {"split_a", "split_b"}
Seeds == {0}
Procs == {1, 2}
Main == CHOOSE p \in Procs : \A q \in Procs : p <= q
RacePath == CHOOSE p \in Paths : TRUE

Digits == <<"0", "1", "2", "3", "4", "5", "6", "7", "8", "9">>
NumericTexts == {Digits[i] : i \in 1..Len(Digits)}
IntText(n) == Digits[n + 1]
TextInt(t) == (CHOOSE i \in 1..Len(Digits) : Digits[i] = t) - 1

IntCell(n) == [k |-> "int", t |-> IntText(n)]
StrCell(s) == [k |-> "str", t |-> s]

Range(s) == {s[i] : i \in 1..Len(s)}

-----------------------------------------------------------------------------
(* The arguments of a call. *)

\* test_size: a float num/den, or an int num.
TestSizes ==
    { [kind |-> "float", num |-> 1, den |-> 2],
      [kind |-> "int", num |-> 1, den |-> 1] }

\* random_state: None, or a seed.
RandomStates ==
    {[given |-> FALSE, seed |-> 0]} \cup {[given |-> TRUE, seed |-> s] : s \in Seeds}

\* The arguments of a call.  A seed is passed only together with shuffle=True:
\* without shuffle, train_test_split never draws from it.
Params ==
    {a \in [test_size : TestSizes, shuffle : BOOLEAN, random_state : RandomStates] :
       a.random_state.given => a.shuffle}

\* The arguments the two racing callers use (no shuffle).
RaceParams == {a \in Params : ~a.shuffle /\ ~a.random_state.given}

\* The arguments explored per split_path: every one on RacePath; on the other
\* paths every one but the unseeded shuffles, whose outcomes are the most numerous.
ParamsOn(path) ==
    IF path = RacePath THEN Params
    ELSE {a \in Params : a.shuffle => a.random_state.given}

\* dataset.info as the caller built it: one <<subject_id, trial_id>> per sample.
Datasets == UNION {[1..n -> Subjects \X Trials] : n \in 0..MaxRows}

\* dataset.info as a table: RangeIndex labels, columns subject_id and trial_id.
DatasetInfo(d) ==
    [cols |-> <<"subject_id", "trial_id">>,
     rows |-> [i \in 1..Len(d) |->
                 [label |-> i - 1, cells |-> <<StrCell(d[i][1]), IntCell(d[i][2])>>]]]

-----------------------------------------------------------------------------
(* Table operations. *)

ColPos(cols, name) == CHOOSE i \in 1..Len(cols) : cols[i] = name

\* set(info[name]): the distinct cells of a column.
Distinct(info, name) == {info.rows[i].cells[ColPos(info.cols, name)] : i \in 1..Len(info.rows)}

\* GroupRows with the trial_id condition dropped.
GroupRowsBySubjectOnly(info, subject, trial) ==
    LET sc == ColPos(info.cols, "subject_id")
        Match(r) == r.cells[sc] = subject
    IN [cols |-> info.cols, rows |-> SelectSeq(info.rows, Match)]

\* info[(info['subject_id'] == subject) & (info['trial_id'] == trial_id)]
GroupRows(info, subject, trial) ==
    LET sc == ColPos(info.cols, "subject_id")
        tc == ColPos(info.cols, "trial_id")
        Match(r) == r.cells[sc] = subject /\ r.cells[tc] = trial
    IN [cols |-> info.cols, rows |-> SelectSeq(info.rows, Match)]

\* .reset_index(): the old labels become a first column "index".
ResetIndex(frame) ==
    [cols |-> <<"index">> \o frame.cols,
     rows |-> [i \in 1..Len(frame.rows) |->
                 [label |-> i - 1,
                  cells |-> <<IntCell(frame.rows[i].label)>> \o frame.rows[i].cells]]]

\* .iloc[idx]: the rows at the 0-based positions idx, in the order of idx.
Iloc(frame, idx) ==
    [cols |-> frame.cols, rows |-> [j \in 1..Len(idx) |-> frame.rows[idx[j] + 1]]]

RECURSIVE AllRows(_)
AllRows(frames) ==
    IF frames = <<>> THEN <<>> ELSE Head(frames).rows \o AllRows(Tail(frames))

\* pd.concat(frames, ignore_index=True) of a non-empty list.
Concat(frames) ==
    LET rs == AllRows(frames)
    IN [cols |-> frames[1].cols,
        rows |-> [i \in 1..Len(rs) |-> [label |-> i - 1, cells |-> rs[i].cells]]]

\* to_csv(index=False): the header and the text of every cell.
ToCsv(frame) ==
    [header |-> frame.cols,
     lines |-> [i \in 1..Len(frame.rows) |->
                  [j \in 1..Len(frame.cols) |-> frame.rows[i].cells[j].t]]]

\* read_csv's dtype inference: int64 when every text of the column is a number.
ColKind(file, j) ==
    IF \A i \in 1..Len(file.lines) : file.lines[i][j] \in NumericTexts
    THEN "int" ELSE "str"

\* pd.read_csv of a file's content.
ParseCsv(file) ==
    LET kinds == [j \in 1..Len(file.header) |-> ColKind(file, j)]
    IN [cols |-> file.header,
        rows |-> [i \in 1..Len(file.lines) |->
                    [label |-> i - 1,
                     cells |-> [j \in 1..Len(file.header) |->
                                  [k |-> kinds[j], t |-> file.lines[i][j]]]]]]

-----------------------------------------------------------------------------
(* sklearn.model_selection.train_test_split on np.arange(n). *)

CeilDiv(a, b) == (a + b - 1) \div b

\* SplitSizes with the test share rounded down.
SplitSizesFloor(n, ts) ==
    LET bad == IF ts.kind = "int" THEN ts.num >= n \/ ts.num <= 0
               ELSE ts.num <= 0 \/ ts.num >= ts.den
        n_test == IF ts.kind = "int" THEN ts.num ELSE (ts.num * n) \div ts.den
        n_train == n - n_test
    IN IF bad \/ n_train <= 0 \/ n_test <= 0 THEN <<>> ELSE <<n_train, n_test>>

\* <<n_train, n_test>>, or <<>> where train_test_split raises ValueError.
SplitSizes(n, ts) ==
    LET bad == IF ts.kind = "int" THEN ts.num >= n \/ ts.num <= 0
               ELSE ts.num <= 0 \/ ts.num >= ts.den
        n_test == IF ts.kind = "int" THEN ts.num ELSE CeilDiv(ts.num * n, ts.den)
        n_train == n - n_test
    IN IF bad \/ n_train <= 0 THEN <<>> ELSE <<n_train, n_test>>

AllPermutations(n) ==
    {f \in [1..n -> 0..(n - 1)] : \A i, j \in 1..n : f[i] = f[j] => i = j}

\* RngPermutation with the seed ignored.
RngPermutationUnseeded(rs, n) == AllPermutations(n)

\* rng.permutation(n): fixed by a seed (a fresh RandomState(seed) per call),
\* any permutation when random_state is None.
RngPermutation(rs, n) ==
    IF rs.given THEN {[i \in 1..n |-> (i + rs.seed) % n]} ELSE AllPermutations(n)

\* train_test_split raises ValueError for this group size.
Raises(n, a) == SplitSizes(n, a.test_size) = <<>>

\* TrainTestSplit with the unshuffled cut taken from the front.
TrainTestSplitTestFirst(n, a) ==
    LET sz == SplitSizes(n, a.test_size)
    IN IF Raises(n, a) THEN {}
       ELSE IF ~a.shuffle
       THEN {[test |-> [i \in 1..sz[2] |-> i - 1],
              train |-> [i \in 1..sz[1] |-> sz[2] + i - 1]]}
       ELSE {[test |-> SubSeq(perm, 1, sz[2]), train |-> SubSeq(perm, sz[2] + 1, n)] :
               perm \in RngPermutation(a.random_state, n)}

\* The possible (train_index, test_index) pairs; {} where the call raises.
TrainTestSplit(n, a) ==
    LET sz == SplitSizes(n, a.test_size)
    IN IF Raises(n, a) THEN {}
       ELSE IF ~a.shuffle
       THEN {[train |-> [i \in 1..sz[1] |-> i - 1],
              test |-> [i \in 1..sz[2] |-> sz[1] + i - 1]]}
       ELSE {[test |-> SubSeq(perm, 1, sz[2]), train |-> SubSeq(perm, sz[2] + 1, n)] :
               perm \in RngPermutation(a.random_state, n)}

-----------------------------------------------------------------------------
(* The split of the whole table. *)

\* The orders in which list(set(...)) can enumerate a set of strings.
Orderings(S) ==
    {f \in [1..Cardinality(S) -> S] : \A i, j \in 1..Cardinality(S) : f[i] = f[j] => i = j}

\* The order in which list(set(...)) enumerates a set of small ints: ascending.
Ascending(S) ==
    CHOOSE f \in Orderings(S) :
        \A i, j \in 1..Cardinality(S) : i < j => TextInt(f[i].t) < TextInt(f[j].t)

\* The (subject, trial) pairs of the nested loops, for one order of the subjects.
RECURSIVE Pairs(_, _)
Pairs(subjects, trial_ids) ==
    IF subjects = <<>> THEN <<>>
    ELSE [j \in 1..Len(trial_ids) |-> <<Head(subjects), trial_ids[j]>>]
         \o Pairs(Tail(subjects), trial_ids)

\* GroupKeys restricted to the pairs that occur in the table.
GroupKeysOccurring(info) ==
    LET Occurs(key) == GroupRows(info, key[1], key[2]).rows # <<>>
    IN {SelectSeq(Pairs(subjects, Ascending(Distinct(info, "trial_id"))), Occurs) :
          subjects \in Orderings(Distinct(info, "subject_id"))}

\* The sequences of groups the two loops can visit: distinct subjects x distinct trials.
GroupKeys(info) ==
    {Pairs(subjects, Ascending(Distinct(info, "trial_id"))) :
       subjects \in Orderings(Distinct(info, "subject_id"))}

\* The loops' accumulated lists train_info / test_info; {} where a group's split raises.
RECURSIVE SplitGroups(_, _, _)
SplitGroups(info, a, keys) ==
    IF keys = <<>> THEN {[train |-> <<>>, test |-> <<>>]}
    ELSE LET cur_info == ResetIndex(GroupRows(info, Head(keys)[1], Head(keys)[2]))
             here == TrainTestSplit(Len(cur_info.rows), a)
             rest == SplitGroups(info, a, Tail(keys))
         IN {[train |-> <<Iloc(cur_info, s.train)>> \o r.train,
              test |-> <<Iloc(cur_info, s.test)>> \o r.test] : s \in here, r \in rest}

\* Why the computation raises, "" when it does not.  An empty table leaves
\* train_info None, and pd.concat(None) raises TypeError; a group whose split
\* raises ends the loops with that ValueError.
SplitError(info, a) ==
    IF info.rows = <<>> THEN "TypeError"
    ELSE IF \E keys \in GroupKeys(info) : \E i \in 1..Len(keys) :
               Raises(Len(GroupRows(info, keys[i][1], keys[i][2]).rows), a)
    THEN "ValueError"
    ELSE ""

\* The possible (train_info, test_info) tables after the two pd.concat.
SplitOutcomes(info, a) ==
    IF SplitError(info, a) # "" THEN {}
    ELSE UNION {{[train |-> Concat(r.train), test |-> Concat(r.test)] :
                   r \in SplitGroups(info, a, keys)} : keys \in GroupKeys(info)}

-----------------------------------------------------------------------------
(* The file system: per split_path, whether the directory exists and the    *)
(* content of train.csv / test.csv (<<>> when the file is missing).         *)

NoDir == [dir |-> FALSE, train |-> <<>>, test |-> <<>>]

\* Exists answering no for every path.
ExistsNever(files, path) == FALSE

\* Exists answering yes only when the manifest is there too.
ExistsWithManifest(files, path) ==
    files[path].dir /\ files[path].train # <<>> /\ files[path].test # <<>>

\* os.path.exists(split_path)
Exists(files, path) == files[path].dir

\* MakeDirsError as with exist_ok=True.
MakeDirsErrorExistOk(files, path) == ""

\* os.makedirs(split_path) raises when the directory is already there.
MakeDirsError(files, path) == IF files[path].dir THEN "FileExistsError" ELSE ""

MakeDirs(files, path) == [files EXCEPT ![path].dir = TRUE]

\* frame.to_csv(os.path.join(split_path, name + '.csv'), index=False)
WriteCsv(files, path, name, frame) ==
    IF name = "train" THEN [files EXCEPT ![path].train = <<ToCsv(frame)>>]
    ELSE [files EXCEPT ![path].test = <<ToCsv(frame)>>]

FileOf(files, path, name) == IF name = "train" THEN files[path].train ELSE files[path].test

\* pd.read_csv(os.path.join(split_path, name + '.csv')): <<table>>, or <<>> when
\* the file is missing (FileNotFoundError).
ReadCsv(files, path, name) ==
    IF FileOf(files, path, name) = <<>> THEN <<>>
    ELSE <<ParseCsv(FileOf(files, path, name)[1])>>

\* What a call hands back to its caller.
Success(path, branch, train_info, test_info) ==
    [path |-> path, branch |-> branch, ok |-> TRUE, err |-> "",
     info |-> <<train_info, test_info>>]

Failure(path, branch, err) ==
    [path |-> path, branch |-> branch, ok |-> FALSE, err |-> err, info |-> <<>>]

\* The two read_csv and the return of a call.
Load(files, path, branch) ==
    LET train_info == ReadCsv(files, path, "train")
        test_info == ReadCsv(files, path, "test")
    IN IF train_info = <<>> \/ test_info = <<>>
       THEN Failure(path, branch, "FileNotFoundError")
       ELSE Success(path, branch, train_info[1], test_info[1])

-----------------------------------------------------------------------------
VARIABLES
    dataset,  \* the caller's dataset.info
    fs,       \* the file system
    made,     \* per split_path: <<arguments>> of the call that wrote its files
    out,      \* per caller: <<result>> of its last finished call
    pc,       \* per caller: 0 when not in a call, else the next step of Program
    branch,   \* per caller: "fresh" or "cached", the side of the existence check
    arg,      \* per caller: <<[path, a]>> of the call in progress
    mem,      \* per caller: <<[train, test]>> the computed train_info / test_info
    buf,      \* per caller: the tables read back so far
    exc,      \* per caller: the exception being raised, "" when none
    log       \* per caller: the I/O operations of the call in progress, in order

vars == <<dataset, fs, made, out, pc, branch, arg, mem, buf, exc, log>>
locals == <<pc, branch, arg, mem, buf, exc, log>>

Init ==
    /\ dataset \in Datasets
    /\ fs = [p \in Paths |-> NoDir]
    /\ made = [p \in Paths |-> <<>>]
    /\ out = [p \in Procs |-> <<>>]
    /\ pc = [p \in Procs |-> 0]
    /\ branch = [p \in Procs |-> "fresh"]
    /\ arg = [p \in Procs |-> <<>>]
    /\ mem = [p \in Procs |-> <<>>]
    /\ buf = [p \in Procs |-> <<>>]
    /\ exc = [p \in Procs |-> ""]
    /\ log = [p \in Procs |-> <<>>]

-----------------------------------------------------------------------------
(* Spec: a whole call as one step. *)

\* A call that finds no split_path: makedirs, the split, two writes, two reads.
CallFresh(p, path, a) ==
    /\ ~Exists(fs, path)
    /\ IF MakeDirsError(fs, path) # ""
       THEN /\ out' = [out EXCEPT ![p] = <<Failure(path, "fresh", MakeDirsError(fs, path))>>]
            /\ UNCHANGED <<fs, made>>
       ELSE IF SplitError(DatasetInfo(dataset), a) # ""
       THEN /\ fs' = MakeDirs(fs, path)
            /\ out' = [out EXCEPT ![p] =
                         <<Failure(path, "fresh", SplitError(DatasetInfo(dataset), a))>>]
            /\ UNCHANGED made
       ELSE \E o \in SplitOutcomes(DatasetInfo(dataset), a) :
              LET written == WriteCsv(WriteCsv(MakeDirs(fs, path), path, "train", o.train),
                                      path, "test", o.test)
              IN /\ fs' = written
                 /\ out' = [out EXCEPT ![p] = <<Load(written, path, "fresh")>>]
                 /\ made' = [made EXCEPT ![path] = <<a>>]
    /\ UNCHANGED <<dataset, locals>>

\* A call that finds split_path: the two reads only.
CallCached(p, path, a) ==
    /\ Exists(fs, path)
    /\ out' = [out EXCEPT ![p] = <<Load(fs, path, "cached")>>]
    /\ UNCHANGED <<dataset, fs, made, locals>>

Next ==
    \E path \in Paths : \E a \in ParamsOn(path) :
        \/ CallFresh(Main, path, a)
        \/ CallCached(Main, path, a)

Spec == Init /\ [][Next]_vars

-----------------------------------------------------------------------------
(* SpecRace: the same function, one step per I/O operation, two callers.    *)

\* The operations of the branch taken when split_path does not exist, in program order.
FreshStepsReadFirst ==
    <<"makedirs", "split", "read_train", "read_test", "write_train", "write_test">>

FreshSteps ==
    <<"makedirs", "split", "write_train", "write_test", "read_train", "read_test">>

\* The operations of a call that finds split_path.
CachedSteps == <<"read_train", "read_test">>

Program(b) == IF b = "fresh" THEN FreshSteps ELSE CachedSteps

\* Caller p is about to perform `step`.
At(p, step) ==
    /\ pc[p] \in 1..Len(Program(branch[p]))
    /\ Program(branch[p])[pc[p]] = step
    /\ exc[p] = ""

Did(p, step) ==
    /\ pc' = [pc EXCEPT ![p] = pc[p] + 1]
    /\ log' = [log EXCEPT ![p] = Append(log[p], step)]

\* The call and its existence check.
Begin(p) ==
    /\ pc[p] = 0
    /\ \E a \in RaceParams :
         arg' = [arg EXCEPT ![p] = <<[path |-> RacePath, a |-> a]>>]
    /\ branch' = [branch EXCEPT ![p] = IF Exists(fs, RacePath) THEN "cached" ELSE "fresh"]
    /\ pc' = [pc EXCEPT ![p] = 1]
    /\ log' = [log EXCEPT ![p] = <<>>]
    /\ UNCHANGED <<dataset, fs, made, out, mem, buf, exc>>

MakeDirsStep(p) ==
    /\ At(p, "makedirs")
    /\ Did(p, "makedirs")
    /\ IF MakeDirsError(fs, arg[p][1].path) # ""
       THEN /\ exc' = [exc EXCEPT ![p] = MakeDirsError(fs, arg[p][1].path)]
            /\ UNCHANGED fs
       ELSE /\ fs' = MakeDirs(fs, arg[p][1].path)
            /\ UNCHANGED exc
    /\ UNCHANGED <<dataset, made, out, branch, arg, mem, buf>>

\* The loops over the groups and the two pd.concat.
SplitStep(p) ==
    /\ At(p, "split")
    /\ Did(p, "split")
    /\ IF SplitError(DatasetInfo(dataset), arg[p][1].a) # ""
       THEN /\ exc' = [exc EXCEPT ![p] = SplitError(DatasetInfo(dataset), arg[p][1].a)]
            /\ UNCHANGED mem
       ELSE /\ \E o \in SplitOutcomes(DatasetInfo(dataset), arg[p][1].a) :
                 mem' = [mem EXCEPT ![p] = <<o>>]
            /\ UNCHANGED exc
    /\ UNCHANGED <<dataset, fs, made, out, branch, arg, buf>>

WriteTrain(p) ==
    /\ At(p, "write_train")
    /\ mem[p] # <<>>
    /\ Did(p, "write_train")
    /\ fs' = WriteCsv(fs, arg[p][1].path, "train", mem[p][1].train)
    /\ UNCHANGED <<dataset, made, out, branch, arg, mem, buf, exc>>

WriteTest(p) ==
    /\ At(p, "write_test")
    /\ mem[p] # <<>>
    /\ Did(p, "write_test")
    /\ fs' = WriteCsv(fs, arg[p][1].path, "test", mem[p][1].test)
    /\ UNCHANGED <<dataset, made, out, branch, arg, mem, buf, exc>>

ReadStep(p, name) ==
    /\ IF ReadCsv(fs, arg[p][1].path, name) = <<>>
       THEN /\ exc' = [exc EXCEPT ![p] = "FileNotFoundError"]
            /\ UNCHANGED buf
       ELSE /\ buf' = [buf EXCEPT ![p] = buf[p] \o ReadCsv(fs, arg[p][1].path, name)]
            /\ UNCHANGED exc
    /\ UNCHANGED <<dataset, fs, made, out, branch, arg, mem>>

ReadTrain(p) ==
    /\ At(p, "read_train")
    /\ Did(p, "read_train")
    /\ ReadStep(p, "train")

ReadTest(p) ==
    /\ At(p, "read_test")
    /\ Did(p, "read_test")
    /\ ReadStep(p, "test")

\* return train_dataset, test_dataset
Return(p) ==
    /\ pc[p] = Len(Program(branch[p])) + 1
    /\ exc[p] = ""
    /\ Len(buf[p]) = 2
    /\ out' = [out EXCEPT ![p] = <<Success(arg[p][1].path, branch[p], buf[p][1], buf[p][2])>>]
    /\ pc' = [pc EXCEPT ![p] = 0]
    /\ arg' = [arg EXCEPT ![p] = <<>>]
    /\ mem' = [mem EXCEPT ![p] = <<>>]
    /\ buf' = [buf EXCEPT ![p] = <<>>]
    /\ UNCHANGED <<dataset, fs, made, branch, exc, log>>

\* The exception leaves the function: nothing catches it.
Raise(p) ==
    /\ pc[p] > 0
    /\ exc[p] # ""
    /\ out' = [out EXCEPT ![p] = <<Failure(arg[p][1].path, branch[p], exc[p])>>]
    /\ pc' = [pc EXCEPT ![p] = 0]
    /\ exc' = [exc EXCEPT ![p] = ""]
    /\ arg' = [arg EXCEPT ![p] = <<>>]
    /\ mem' = [mem EXCEPT ![p] = <<>>]
    /\ buf' = [buf EXCEPT ![p] = <<>>]
    /\ UNCHANGED <<dataset, fs, made, branch, log>>

NextRace ==
    \E p \in Procs :
        \/ Begin(p)
        \/ MakeDirsStep(p)
        \/ SplitStep(p)
        \/ WriteTrain(p)
        \/ WriteTest(p)
        \/ ReadTrain(p)
        \/ ReadTest(p)
        \/ Return(p)
        \/ Raise(p)

SpecRace == Init /\ [][NextRace]_vars

-----------------------------------------------------------------------------
(* What the claims speak about. *)

\* Both manifest files of the path are on disk.
Persisted(path) == fs[path].train # <<>> /\ fs[path].test # <<>>

\* The directory is there, the manifest is not.
OrphanIn(files, path) ==
    files[path].dir /\ files[path].train = <<>> /\ files[path].test = <<>>
Orphan(path) == OrphanIn(fs, path)

TrainFile(path) == fs[path].train[1]
TestFile(path) == fs[path].test[1]

\* The source row a manifest line stands for: the label kept in its "index" column.
LabelOf(file, i) == TextInt(file.lines[i][ColPos(file.header, "index")])
Labels(file) == [i \in 1..Len(file.lines) |-> LabelOf(file, i)]

\* The source rows of group (s, t), as 0-based labels in source order.
RECURSIVE LabelsFrom(_, _, _)
LabelsFrom(s, t, i) ==
    IF i > Len(dataset) THEN <<>>
    ELSE (IF dataset[i] = <<s, t>> THEN <<i - 1>> ELSE <<>>) \o LabelsFrom(s, t, i + 1)
GroupLabels(s, t) == LabelsFrom(s, t, 1)

\* The labels of a manifest's lines that belong to group (s, t), in file order.
InGroup(s, t, label) == dataset[label + 1] = <<s, t>>
FileGroupLabels(file, s, t) ==
    LET Mine(label) == InGroup(s, t, label) IN SelectSeq(Labels(file), Mine)

SubjectsPresent == {dataset[i][1] : i \in 1..Len(dataset)}
TrialsPresent == {dataset[i][2] : i \in 1..Len(dataset)}
GroupsPresent == {dataset[i] : i \in 1..Len(dataset)}

\* Some (subject, trial) pair of the cross product has no row.
Sparse == \E s \in SubjectsPresent, t \in TrialsPresent : <<s, t>> \notin GroupsPresent

\* A manifest line carries the texts of the source row it stands for.
LineMatchesSource(file, i) ==
    /\ LabelOf(file, i) \in 0..(Len(dataset) - 1)
    /\ file.lines[i][ColPos(file.header, "subject_id")] = dataset[LabelOf(file, i) + 1][1]
    /\ file.lines[i][ColPos(file.header, "trial_id")]
         = IntText(dataset[LabelOf(file, i) + 1][2])

Finished(p) == pc[p] = 0 /\ out[p] # <<>>
Result(p) == out[p][1]

-----------------------------------------------------------------------------
(* C1: after a successful call on a fresh split_path, every source row is in *)
(* exactly one of train.csv / test.csv, exactly once, and every manifest     *)
(* line is a source row: per (subject, trial) group, the train rows and the  *)
(* test rows are disjoint and together are the group's rows.                 *)
C1_Partition ==
    \A path \in Paths :
        made[path] # <<>> =>
            /\ Persisted(path)
            /\ Len(TrainFile(path).lines) + Len(TestFile(path).lines) = Len(dataset)
            /\ Range(Labels(TrainFile(path))) \cup Range(Labels(TestFile(path)))
                 = 0..(Len(dataset) - 1)
            /\ Range(Labels(TrainFile(path))) \cap Range(Labels(TestFile(path))) = {}
            /\ \A i \in 1..Len(TrainFile(path).lines) : LineMatchesSource(TrainFile(path), i)
            /\ \A i \in 1..Len(TestFile(path).lines) : LineMatchesSource(TestFile(path), i)
            /\ \A g \in GroupsPresent :
                 Range(FileGroupLabels(TrainFile(path), g[1], g[2]))
                   \cup Range(FileGroupLabels(TestFile(path), g[1], g[2]))
                   = Range(GroupLabels(g[1], g[2]))

\* A successful fresh call on a table of two groups.
C1_Witness ==
    /\ Finished(Main) /\ Result(Main).ok /\ Result(Main).branch = "fresh"
    /\ made[Result(Main).path] # <<>>
    /\ Cardinality(GroupsPresent) = 2

(* C2: once a split is persisted under split_path, a later call with that    *)
(* split_path, whatever its arguments, leaves the manifest files as they are *)
(* and returns the persisted split.                                          *)
C2_CacheReuse ==
    [][\A path \in Paths :
         Persisted(path) =>
            /\ fs'[path] = fs[path]
            /\ (out'[Main] # out[Main] /\ out'[Main][1].path = path) =>
                  out'[Main] = <<Success(path, "cached", ParseCsv(TrainFile(path)),
                                         ParseCsv(TestFile(path)))>>]_vars

\* A later call returned the split that an earlier call persisted.
C2_Witness ==
    /\ Finished(Main) /\ Result(Main).ok /\ Result(Main).branch = "cached"
    /\ made[Result(Main).path] # <<>>

(* C3: with shuffle=False, in every group the train rows are the first rows  *)
(* of the group in source order and the test rows are the remaining ones,    *)
(* both in source order.                                                     *)
C3_NoShuffleOrder ==
    \A path \in Paths :
        (made[path] # <<>> /\ ~made[path][1].shuffle) =>
            \A g \in GroupsPresent :
                FileGroupLabels(TrainFile(path), g[1], g[2])
                  \o FileGroupLabels(TestFile(path), g[1], g[2])
                  = GroupLabels(g[1], g[2])

\* An unshuffled split of two groups whose rows interleave in the source.
C3_Witness ==
    \E path \in Paths :
        /\ made[path] # <<>> /\ ~made[path][1].shuffle
        /\ Cardinality(GroupsPresent) = 2
        /\ Len(dataset) >= 4
        /\ dataset[1] # dataset[2]

(* C4: the proportion is applied per group: a group of n rows puts           *)
(* ceil(n * f) rows in the test output for a float test_size f, exactly      *)
(* test_size rows for an int test_size, and the other rows in train.         *)
C4_PerGroupProportion ==
    \A path \in Paths :
        made[path] # <<>> =>
            \A g \in GroupsPresent :
                LET n == Len(GroupLabels(g[1], g[2]))
                    k == Len(FileGroupLabels(TestFile(path), g[1], g[2]))
                    ts == made[path][1].test_size
                IN /\ Len(FileGroupLabels(TrainFile(path), g[1], g[2])) = n - k
                   /\ ts.kind = "int" => k = ts.num
                   /\ ts.kind = "float" =>
                        (k * ts.den >= n * ts.num /\ (k - 1) * ts.den < n * ts.num)

\* A float split of a group of three rows (two of them go to test).
C4_Witness ==
    \E path \in Paths :
        /\ made[path] # <<>> /\ made[path][1].test_size.kind = "float"
        /\ \E g \in GroupsPresent : Len(GroupLabels(g[1], g[2])) = 3

(* C5: the manifest files and the returned tables have exactly the columns   *)
(* of the source table, and every row has the values of a source row.        *)
C5_RoundTrip ==
    \A path \in Paths :
        made[path] # <<>> =>
            /\ TrainFile(path).header = DatasetInfo(dataset).cols
            /\ TestFile(path).header = DatasetInfo(dataset).cols
            /\ (Finished(Main) /\ Result(Main).ok /\ Result(Main).path = path) =>
                  \A t \in 1..2 :
                      /\ Result(Main).info[t].cols = DatasetInfo(dataset).cols
                      /\ \A i \in 1..Len(Result(Main).info[t].rows) :
                            \E j \in 1..Len(dataset) :
                                Result(Main).info[t].rows[i].cells
                                  = DatasetInfo(dataset).rows[j].cells

(* C6: two calls with the same dataset and arguments, shuffle=True and a     *)
(* seed, each on its own fresh split_path, give the same train row set and   *)
(* the same test row set.                                                    *)
C6_SeededDeterminism ==
    \A p1, p2 \in Paths :
        (/\ p1 # p2
         /\ made[p1] # <<>> /\ made[p2] # <<>> /\ made[p1] = made[p2]
         /\ made[p1][1].shuffle /\ made[p1][1].random_state.given) =>
            /\ Range(Labels(TrainFile(p1))) = Range(Labels(TrainFile(p2)))
            /\ Range(Labels(TestFile(p1))) = Range(Labels(TestFile(p2)))

\* Two seeded shuffled splits of a group of at least three rows.
C6_Witness ==
    \E p1, p2 \in Paths :
        /\ p1 # p2
        /\ made[p1] # <<>> /\ made[p2] # <<>> /\ made[p1] = made[p2]
        /\ made[p1][1].shuffle /\ made[p1][1].random_state.given
        /\ \E g \in GroupsPresent : Len(GroupLabels(g[1], g[2])) >= 3

IsPrefix(s, t) == Len(s) <= Len(t) /\ SubSeq(t, 1, Len(s)) = s

(* C7: a call on a nonexistent split_path creates the directory, computes    *)
(* the split, writes train.csv and test.csv and only then reads them back;   *)
(* a call on an existing split_path only reads the two files; either call    *)
(* returns the tables read back from the files.                              *)
C7_EffectOrder ==
    \A p \in Procs :
        LET order == IF branch[p] = "fresh"
                     THEN <<"makedirs", "split", "write_train", "write_test",
                            "read_train", "read_test">>
                     ELSE <<"read_train", "read_test">>
        IN /\ IsPrefix(log[p], order)
           /\ (Finished(p) /\ Result(p).ok) =>
                 /\ log[p] = order
                 /\ Result(p).branch = branch[p]
                 /\ Persisted(Result(p).path)
                 /\ Result(p).info = <<ParseCsv(TrainFile(Result(p).path)),
                                       ParseCsv(TestFile(Result(p).path))>>

\* One caller returned from the fresh branch, the other from the cached one.
C7_Witness ==
    \E p, q \in Procs :
        /\ Finished(p) /\ Result(p).ok /\ Result(p).branch = "fresh"
        /\ Finished(q) /\ Result(q).ok /\ Result(q).branch = "cached"
        /\ Len(log[p]) = 6 /\ Len(log[q]) = 2

(* C8: the groups are the cross product of the distinct subject_id and the   *)
(* distinct trial_id values; when a pair of it has no row, every call fails, *)
(* the fresh one with the split's ValueError, and neither train.csv nor      *)
(* test.csv is written.                                                      *)
C8_SparseIsFatal ==
    Sparse =>
        /\ \A path \in Paths : fs[path].train = <<>> /\ fs[path].test = <<>>
        /\ Finished(Main) =>
              /\ ~Result(Main).ok
              /\ Result(Main).branch = "fresh" => Result(Main).err = "ValueError"

\* A fresh call failed on a sparse table whose non-empty groups could all be split.
C8_Witness ==
    /\ Sparse
    /\ Finished(Main) /\ Result(Main) = Failure(Result(Main).path, "fresh", "ValueError")
    /\ fs[Result(Main).path].dir
    /\ \A g \in GroupsPresent : Len(GroupLabels(g[1], g[2])) >= 2

\* Caller p created the directory in the call it is in and has not failed.
Creator(p) == pc[p] > 0 /\ branch[p] = "fresh" /\ exc[p] = "" /\ Len(log[p]) >= 1

C10_OrphanDirectory ==
    [][/\ \A path \in Paths :
            Orphan(path) =>
               /\ fs'[path] = fs[path]
               /\ (out'[Main] # out[Main] /\ out'[Main][1].path = path) =>
                     out'[Main] = <<Failure(path, "cached", "FileNotFoundError")>>
       /\ (out'[Main] # <<>> /\ ~out'[Main][1].ok /\ out'[Main][1].branch = "fresh") =>
             OrphanIn(fs', out'[Main][1].path)]_vars

\* The directory exists without its manifest, and a later call failed on it.
C10_Witness ==
    /\ Finished(Main)
    /\ Result(Main) = Failure(Result(Main).path, "cached", "FileNotFoundError")
    /\ Orphan(Result(Main).path)

====
